---- MODULE Spec2Model ----
(***************************************************************************)
(* NAO bridge (bridge_py27/nao_bridge.py): the module-level startup        *)
(* sequence (settings file -> os.environ -> required keys -> typed values  *)
(* -> SDK path -> naoqi import -> ALTextToSpeech proxy -> HTTPServer) and  *)
(* the HTTP handler (do_GET, do_POST) of the serving process.              *)
(*                                                                         *)
(* Byte and text strings of the settings file, the environment and the     *)
(* messages are sequences of tokens: a token is a maximal piece of text    *)
(* holding no whitespace, no "=" and no "#" (a word), or one such          *)
(* separator.  Words are ASCII, so a settings line decodes as UTF-8 and    *)
(* the except branch of line 40 keeps the same tokens.  The text of a /say *)
(* request is a sequence of Unicode code points.  json.loads of a Python   *)
(* 2.7 yields unicode for every JSON string, so the else branch of line    *)
(* 141 is entered by numbers, booleans, arrays and objects only.           *)
(***************************************************************************)
EXTENDS Integers, Sequences, FiniteSets, TLC

VARIABLES
    pc,         \* position of the process: a startup step, "serving" or "exited"
    steps,      \* the startup steps begun so far, in order
    dotenv,     \* the settings file: [status, lines]
    ambient,    \* os.environ as it was before load_dotenv_strict ran
    environ,    \* os.environ
    config,     \* NAO_SDK_PATH, NAO_IP, NAO_PORT, BRIDGE_BIND_IP, BRIDGE_BIND_PORT
    sys_path,   \* the entries the startup appended to sys.path
    tts,        \* the ALTextToSpeech proxy
    server,     \* the bound HTTPServer
    error,      \* the exception that ended the process
    hstate,     \* the handler: "idle", or "say" while blocked in tts.say
    req,        \* the request being handled, or the last one handled
    responses,  \* the responses begun for req, in order
    say_calls,  \* the payloads handed to tts.say for req, in order
    say_result, \* how the tts.say call of req ended
    uncaught,   \* the exception that left the handler of req
    in_say      \* the tts.say calls begun and not yet ended

vars == <<pc, steps, dotenv, ambient, environ, config, sys_path, tts, server,
          error, hstate, req, responses, say_calls, say_result, uncaught, in_say>>

startup_vars == <<steps, dotenv, ambient, environ, config, sys_path, tts, server, error>>
handler_vars == <<hstate, req, responses, say_calls, say_result, uncaught, in_say>>

(***************************************************************************)
(* Bounds of the model.                                                    *)
(***************************************************************************)
MaxLines == 2       \* lines of the settings file
MaxTextLen == 2     \* code points of a "text" value

(***************************************************************************)
(* Strings as token sequences.                                             *)
(***************************************************************************)
Str(tok) == <<tok>>

Range(s) == {s[i] : i \in 1..Len(s)}

SetMin(S) == CHOOSE x \in S : \A y \in S : x <= y
SetMax(S) == CHOOSE x \in S : \A y \in S : x >= y

\* str.strip() / unicode.strip(): drop the leading and trailing members of ws
strip(s, ws) ==
    LET keep == {i \in 1..Len(s) : s[i] \notin ws}
    IN  IF keep = {} THEN <<>> ELSE SubSeq(s, SetMin(keep), SetMax(keep))

\* whitespace tokens of a settings line or an environment value
WS == {" ", "\t"}

\* sep.join(parts)
RECURSIVE join(_, _)
join(sep, parts) ==
    IF parts = <<>> THEN <<>>
    ELSE IF Len(parts) = 1 THEN parts[1]
    ELSE parts[1] \o <<sep>> \o join(sep, Tail(parts))

(***************************************************************************)
(* Exceptions: [type, msg].  NoExc stands for "no exception".              *)
(***************************************************************************)
NoExc == [type |-> "None", msg |-> <<>>]
Exc(type, msg) == [type |-> type, msg |-> msg]

\* the exception types that "except ValueError" catches
ValueErrorKinds == {"ValueError", "UnicodeDecodeError"}
IsValueError(e) == e.type \in ValueErrorKinds

(***************************************************************************)
(* load_dotenv_strict                                                      *)
(***************************************************************************)
\* one line of the settings file: the (k, v) it defines, or skip
ParseLine(raw) ==
    LET line == strip(raw, WS)
    IN  IF line = <<>> \/ line[1] = "#" \/ "=" \notin Range(line)
        THEN [skip |-> TRUE, k |-> <<>>, v |-> <<>>]
        ELSE LET eq == SetMin({i \in 1..Len(line) : line[i] = "="})
             IN  [skip |-> FALSE,
                  k |-> strip(SubSeq(line, 1, eq - 1), WS),
                  v |-> strip(SubSeq(line, eq + 1, Len(line)), WS)]

\* the loop body without the "k not in os.environ" test
SetDefaultOverwrite(env, raw) ==
    LET p == ParseLine(raw)
    IN  IF ~p.skip /\ p.k # <<>>
        THEN [x \in DOMAIN env \cup {p.k} |-> IF x = p.k THEN p.v ELSE env[x]]
        ELSE env

\* lines 37-47: the body of the "for raw in lines" loop for one line
SetDefault(env, raw) ==
    LET p == ParseLine(raw)
    IN  IF ~p.skip /\ p.k # <<>> /\ p.k \notin DOMAIN env
        THEN [x \in DOMAIN env \cup {p.k} |-> IF x = p.k THEN p.v ELSE env[x]]
        ELSE env

\* the lines taken from the last to the first
RECURSIVE LoadLinesLastFirst(_, _)
LoadLinesLastFirst(lines, env) ==
    IF lines = <<>> THEN env
    ELSE SetDefault(LoadLinesLastFirst(Tail(lines), env), lines[1])

\* lines 36-47: for raw in lines
RECURSIVE LoadLines(_, _)
LoadLines(lines, env) ==
    IF lines = <<>> THEN env
    ELSE LoadLines(Tail(lines), SetDefault(env, lines[1]))

\* the result of load_dotenv_strict(): the exception it raises and os.environ after it
load_dotenv_strict(file, env) ==
    IF file.status = "absent"
    THEN [exc |-> Exc("EnvironmentError", <<".env file not found at: ", ".env">>),
          environ |-> env]
    ELSE IF file.status = "unreadable"
    THEN [exc |-> Exc("EnvironmentError", <<"Failed to read .env: ", "IOError">>),
          environ |-> env]
    ELSE [exc |-> NoExc, environ |-> LoadLines(file.lines, env)]

(***************************************************************************)
(* Required keys and value conversion                                      *)
(***************************************************************************)
REQUIRED_KEYS == <<Str("NAO_SDK_PATH"), Str("NAO_IP"), Str("NAO_PORT"),
                   Str("BRIDGE_BIND_IP"), Str("BRIDGE_BIND_PORT")>>

\* os.environ.get(k) is falsy: k is absent or its value is the empty string
Falsy(env, k) == k \notin DOMAIN env \/ env[k] = <<>>

\* the check stopping at the first missing key
missingFirstOnly(env) ==
    LET all == SelectSeq(REQUIRED_KEYS, LAMBDA k : Falsy(env, k))
    IN  IF all = <<>> THEN <<>> ELSE <<all[1]>>

\* line 62
missing(env) == SelectSeq(REQUIRED_KEYS, LAMBDA k : Falsy(env, k))

MissingError(env) ==
    Exc("EnvironmentError",
        <<"Missing required env keys in .env: ">> \o join(", ", missing(env)))

\* the decimal literals of the model and the integers they denote
IntLiteral == [tok \in {"0", "17", "9559", "8088"} |->
                 CASE tok = "0" -> 0 [] tok = "17" -> 17
                   [] tok = "9559" -> 9559 [] tok = "8088" -> 8088]

\* int(str(v).strip()): the integer, or ValueError
int(v) ==
    LET s == strip(v, WS)
    IN  IF Len(s) = 1 /\ s[1] \in DOMAIN IntLiteral
        THEN [exc |-> NoExc, value |-> IntLiteral[s[1]]]
        ELSE [exc |-> Exc("ValueError", <<"invalid literal for int() with base 10: ">> \o s),
              value |-> 0]

NoConfig == [NAO_SDK_PATH |-> <<>>, NAO_IP |-> <<>>, NAO_PORT |-> -1,
             BRIDGE_BIND_IP |-> <<>>, BRIDGE_BIND_PORT |-> -1]

\* lines 67-71: the exception raised and the values assigned
ConvertValues(env) ==
    LET np == int(env[Str("NAO_PORT")])
        bp == int(env[Str("BRIDGE_BIND_PORT")])
    IN  IF np.exc # NoExc THEN [exc |-> np.exc, config |-> NoConfig]
        ELSE IF bp.exc # NoExc THEN [exc |-> bp.exc, config |-> NoConfig]
        ELSE [exc |-> NoExc,
              config |-> [NAO_SDK_PATH |-> strip(env[Str("NAO_SDK_PATH")], WS),
                          NAO_IP |-> strip(env[Str("NAO_IP")], WS),
                          NAO_PORT |-> np.value,
                          BRIDGE_BIND_IP |-> strip(env[Str("BRIDGE_BIND_IP")], WS),
                          BRIDGE_BIND_PORT |-> bp.value]]

\* os.path.join(a, b)
path_join(a, b) == IF a = <<>> THEN b ELSE a \o <<"/">> \o b

\* sys.path.append(p) unless p is there
AppendOnce(path, p) == IF p \in Range(path) THEN path ELSE Append(path, p)

SERVICE == "ALTextToSpeech"
NoProxy == [service |-> "None", ip |-> <<>>, port |-> -1, events |-> FALSE]
NoServer == [bound |-> FALSE, ip |-> <<>>, port |-> -1]

(***************************************************************************)
(* Inputs of the startup: settings files and ambient environments          *)
(***************************************************************************)
FileLines ==
    { <<"NAO_SDK_PATH", "=", "/opt/naoqi">>,
      <<" ", "NAO_IP", " ", "=", " ", "192.168.0.10", " ">>,
      <<"NAO_IP", "=", "192.168.0.20">>,
      <<"NAO_IP", "=">>,
      <<"NAO_PORT", "=", "abc">>,
      <<"#", " ", "NAO_IP", "=", "192.168.0.30">>,
      <<"NAO_IP">>,
      <<"=", "x">>,
      <<"BRIDGE_BIND_PORT", "=", "0">> }

RECURSIVE SeqsUpTo(_, _)
SeqsUpTo(S, n) ==
    IF n = 0 THEN {<<>>}
    ELSE LET shorter == SeqsUpTo(S, n - 1)
         IN  shorter \cup {Append(s, x) : s \in shorter, x \in S}

Files ==
    {[status |-> "absent", lines |-> <<>>], [status |-> "unreadable", lines |-> <<>>]}
    \cup {[status |-> "ok", lines |-> ls] : ls \in SeqsUpTo(FileLines, MaxLines)}

KeySet == Range(REQUIRED_KEYS)

AmbientValue(k) ==
    CASE k = Str("NAO_SDK_PATH") -> <<"/sdk">>
      [] k = Str("NAO_IP") -> <<"10.0.0.1">>
      [] k = Str("NAO_PORT") -> <<"9559">>
      [] k = Str("BRIDGE_BIND_IP") -> <<"0.0.0.0">>
      [] k = Str("BRIDGE_BIND_PORT") -> <<"8088">>

FullEnv == [k \in KeySet |-> AmbientValue(k)]

AmbientEnvs ==
    {[k \in S |-> AmbientValue(k)] : S \in SUBSET KeySet}
    \cup { [FullEnv EXCEPT ![Str("NAO_IP")] = <<" ">>],
           [FullEnv EXCEPT ![Str("BRIDGE_BIND_IP")] = <<>>],
           [FullEnv EXCEPT ![Str("NAO_PORT")] = <<" ", "9559", " ">>],
           [FullEnv EXCEPT ![Str("BRIDGE_BIND_PORT")] = <<"80", " ", "80">>] }

NoRequest == [method |-> "None", path |-> "", content_length |-> "absent",
              body |-> [syntax |-> "none"]]

\* the settings files and ambient environments the serving process is checked from
ServeLines == { <<"NAO_IP", "=", "192.168.0.20">>, <<"NAO_PORT", "=", "abc">> }

ServeFiles ==
    {[status |-> "absent", lines |-> <<>>], [status |-> "unreadable", lines |-> <<>>]}
    \cup {[status |-> "ok", lines |-> ls] : ls \in SeqsUpTo(ServeLines, 1)}

ServeEnvs ==
    { FullEnv,
      [k \in KeySet \ {Str("NAO_IP")} |-> AmbientValue(k)],
      [k \in KeySet \ {Str("NAO_PORT")} |-> AmbientValue(k)] }

InitWith(files, envs) ==
    /\ pc = "load"
    /\ steps = <<>>
    /\ dotenv \in files
    /\ ambient \in envs
    /\ environ = ambient
    /\ config = NoConfig
    /\ sys_path = <<>>
    /\ tts = NoProxy
    /\ server = NoServer
    /\ error = NoExc
    /\ hstate = "idle"
    /\ req = NoRequest
    /\ responses = <<>>
    /\ say_calls = <<>>
    /\ say_result = [status |-> "none", exc |-> NoExc]
    /\ uncaught = NoExc
    /\ in_say = 0

Init == InitWith(ServeFiles, ServeEnvs)

\* the startup alone, over every settings file and ambient environment of the bounds
InitStartup == InitWith(Files, AmbientEnvs)

(***************************************************************************)
(* Startup steps.  An exception raised at module level ends the process.   *)
(***************************************************************************)
Raise(e) ==
    /\ pc' = "exited"
    /\ error' = e

\* line 49: load_dotenv_strict()
LoadDotenv ==
    /\ pc = "load"
    /\ steps' = Append(steps, "load")
    /\ LET r == load_dotenv_strict(dotenv, environ)
       IN  /\ environ' = r.environ
           /\ IF r.exc # NoExc THEN Raise(r.exc)
              ELSE pc' = "validate" /\ error' = error
    /\ UNCHANGED <<dotenv, ambient, config, sys_path, tts, server>>
    /\ UNCHANGED handler_vars

\* lines 62-64: the missing-key check
CheckRequired ==
    /\ pc = "validate"
    /\ steps' = Append(steps, "validate")
    /\ IF missing(environ) # <<>> THEN Raise(MissingError(environ))
       ELSE pc' = "convert" /\ error' = error
    /\ UNCHANGED <<dotenv, ambient, environ, config, sys_path, tts, server>>
    /\ UNCHANGED handler_vars

\* lines 67-71: strip and convert the values
Convert ==
    /\ pc = "convert"
    /\ steps' = Append(steps, "convert")
    /\ LET r == ConvertValues(environ)
       IN  /\ config' = r.config
           /\ IF r.exc # NoExc THEN Raise(r.exc)
              ELSE pc' = "sdkpath" /\ error' = error
    /\ UNCHANGED <<dotenv, ambient, environ, sys_path, tts, server>>
    /\ UNCHANGED handler_vars

\* lines 76-80: both directories must exist; each is appended to sys.path once.
\* isdir1, isdir2: what os.path.isdir answers for the SDK path and its lib
CheckSdkPathResult(isdir1, isdir2) ==
    LET p1 == config.NAO_SDK_PATH
        p2 == path_join(config.NAO_SDK_PATH, Str("lib"))
    IN  IF ~isdir1
        THEN [exc |-> Exc("EnvironmentError", <<"Invalid SDK path: ">> \o p1),
              sys_path |-> sys_path]
        ELSE IF ~isdir2
        THEN [exc |-> Exc("EnvironmentError", <<"Invalid SDK path: ">> \o p2),
              sys_path |-> AppendOnce(sys_path, p1)]
        ELSE [exc |-> NoExc,
              sys_path |-> AppendOnce(AppendOnce(sys_path, p1), p2)]

CheckSdkPath ==
    /\ pc = "sdkpath"
    /\ steps' = Append(steps, "sdkpath")
    /\ \E isdir1, isdir2 \in BOOLEAN :
         LET r == CheckSdkPathResult(isdir1, isdir2)
         IN  /\ sys_path' = r.sys_path
             /\ IF r.exc # NoExc THEN Raise(r.exc)
                ELSE pc' = "import" /\ error' = error
    /\ UNCHANGED <<dotenv, ambient, environ, config, tts, server>>
    /\ UNCHANGED handler_vars

\* lines 82-85: from naoqi import ALProxy
ImportNaoqi ==
    /\ pc = "import"
    /\ steps' = Append(steps, "import")
    /\ \E ok \in BOOLEAN :
         IF ok THEN pc' = "proxy" /\ error' = error
         ELSE Raise(Exc("ImportError",
                        <<"Failed to import naoqi. Check NAO_SDK_PATH/lib: ", "ImportError">>))
    /\ UNCHANGED <<dotenv, ambient, environ, config, sys_path, tts, server>>
    /\ UNCHANGED handler_vars

\* a failed ALProxy construction that is reported and passed over
ConstructProxySwallow ==
    /\ pc = "proxy"
    /\ steps' = Append(steps, "proxy")
    /\ \E ok \in BOOLEAN :
         /\ tts' = IF ok THEN [service |-> SERVICE, ip |-> config.NAO_IP,
                                port |-> config.NAO_PORT, events |-> FALSE]
                   ELSE tts
         /\ pc' = "main"
         /\ error' = error
    /\ UNCHANGED <<dotenv, ambient, environ, config, sys_path, server>>
    /\ UNCHANGED handler_vars

\* lines 90-102: tts = ALProxy(SERVICE, IP, PORT, False)
ConstructProxy ==
    /\ pc = "proxy"
    /\ steps' = Append(steps, "proxy")
    /\ \E ok \in BOOLEAN :
         IF ok
         THEN /\ tts' = [service |-> SERVICE, ip |-> config.NAO_IP,
                         port |-> config.NAO_PORT, events |-> FALSE]
              /\ pc' = "main"
              /\ error' = error
         ELSE /\ tts' = tts
              /\ Raise(Exc("EnvironmentError",
                           <<"Failed to connect ALTextToSpeech: ", "RuntimeError">>))
    /\ UNCHANGED <<dotenv, ambient, environ, config, sys_path, server>>
    /\ UNCHANGED handler_vars

\* lines 176-180: bind the HTTPServer and enter serve_forever
Main ==
    /\ pc = "main"
    /\ steps' = Append(steps, "main")
    /\ \E ok \in BOOLEAN :
         IF ok
         THEN /\ server' = [bound |-> TRUE, ip |-> config.BRIDGE_BIND_IP,
                            port |-> config.BRIDGE_BIND_PORT]
              /\ pc' = "serving"
              /\ error' = error
         ELSE /\ server' = server
              /\ Raise(Exc("socket.error", <<"Address already in use">>))
    /\ UNCHANGED <<dotenv, ambient, environ, config, sys_path, tts>>
    /\ UNCHANGED handler_vars

Startup ==
    \/ LoadDotenv
    \/ CheckRequired
    \/ Convert
    \/ CheckSdkPath
    \/ ImportNaoqi
    \/ ConstructProxy
    \/ Main

(***************************************************************************)
(* HTTP requests.  A body is unparsable, or the JSON value it parses to;   *)
(* a JSON value is [type, chars], an object also says what "text" holds.   *)
(***************************************************************************)
\* code points of a "text" value: space, "h", U+AC00
TextChars == {32, 104, 44032}

\* the code points unicode.strip() removes
UnicodeSpace == {9, 10, 11, 12, 13, 28, 29, 30, 31, 32, 133, 160, 5760}
                \cup (8192..8202) \cup {8232, 8233, 8239, 8287, 12288}

\* with a no-break space alone and before U+00E9
Texts == SeqsUpTo(TextChars, MaxTextLen) \cup {<<160>>, <<160, 233>>}

Value(type, chars) == [type |-> type, chars |-> chars]
Absent == Value("absent", <<>>)
None == Value("null", <<>>)

\* what "text" holds in a request's JSON object
TextValues ==
    {Absent, None, Value("number", <<>>), Value("array", <<>>)}
    \cup {Value("string", t) : t \in Texts}

Data(type, text) == [type |-> type, text |-> text]
EmptyObject == Data("object", Absent)

JsonData ==
    {Data("object", v) : v \in TextValues}
    \cup {Data(t, Absent) : t \in {"array", "string", "number", "null"}}

Body(syntax, data) == [syntax |-> syntax, data |-> data]
NoBody == Body("empty", EmptyObject)
Garbage == Body("invalid", EmptyObject)
Bodies == {Garbage} \cup {Body("json", d) : d \in JsonData}

Header(present, value) == [present |-> present, value |-> value]
NoHeader == Header(FALSE, <<>>)
\* a Content-Length that is the length of a non-empty body
BodyLength == Header(TRUE, <<"17">>)

Request(method, path, content_length, body) ==
    [method |-> method, path |-> path, content_length |-> content_length, body |-> body]

Requests ==
    {Request(m, p, NoHeader, NoBody) : m \in {"GET", "PUT"}, p \in {"/health", "/say", "/nope"}}
    \cup {Request("POST", p, BodyLength, Body("json", Data("object", Value("string", <<104>>)))) :
            p \in {"/health", "/nope"}}
    \cup {Request("POST", "/say", BodyLength, b) : b \in Bodies}
    \cup {Request("POST", "/say", h, NoBody) : h \in {NoHeader, Header(TRUE, <<"0">>)}}
    \cup {Request("POST", "/say", Header(TRUE, <<"abc">>), b) :
            b \in {Garbage, Body("json", Data("object", Value("string", <<104>>)))}}

(***************************************************************************)
(* Responses and JSON encoding                                             *)
(***************************************************************************)
\* message tokens that are byte strings not decodable as UTF-8
NonUtf8Bytes == {"<cp949 bytes>"}
\* message tokens that are unicode text outside ASCII
UnicodeText == {"<unicode text>"}

Msg(s) == <<s>>

\* json.dumps(obj): raises when a byte string of obj is not UTF-8
json_dumps(obj) ==
    IF "msg" \in DOMAIN obj /\ Range(obj.msg) \cap NonUtf8Bytes # {}
    THEN [exc |-> Exc("UnicodeDecodeError", <<"'utf8' codec can't decode">>), body |-> obj]
    ELSE [exc |-> NoExc, body |-> obj]

EncodeErrorBody == [ok |-> FALSE, msg |-> Msg("encode error")]

\* str(e) of an exception: raises when its argument is unicode text outside ASCII
str(e) ==
    IF Range(e.msg) \cap UnicodeText # {}
    THEN [exc |-> Exc("UnicodeEncodeError", <<"'ascii' codec can't encode">>), value |-> <<>>]
    ELSE [exc |-> NoExc, value |-> e.msg]

\* a handler's progress: the responses it began and the exception in flight
Flow(rs, e) == [responses |-> rs, exc |-> e]

\* the fallback body sent under the code the caller gave
_send_jsonKeepCode(rs, code, obj, wfail) ==
    LET d == json_dumps(obj)
        resp == [code |-> code,
                 body |-> IF d.exc # NoExc THEN EncodeErrorBody ELSE d.body,
                 complete |-> ~wfail]
    IN  Flow(Append(rs, resp),
             IF wfail THEN Exc("socket.error", <<"Broken pipe">>) ELSE NoExc)

\* _send_json(code, obj) after the responses rs; wfail: writing to the socket raises
_send_json(rs, code, obj, wfail) ==
    LET d == json_dumps(obj)
        resp == [code |-> IF d.exc # NoExc THEN 500 ELSE code,
                 body |-> IF d.exc # NoExc THEN EncodeErrorBody ELSE d.body,
                 complete |-> ~wfail]
    IN  Flow(Append(rs, resp),
             IF wfail THEN Exc("socket.error", <<"Broken pipe">>) ELSE NoExc)

(***************************************************************************)
(* Handler._read_json                                                      *)
(***************************************************************************)
\* json.loads(raw)
json_loads(raw) ==
    IF raw.syntax = "invalid"
    THEN [exc |-> Exc("ValueError", <<"No JSON object could be decoded">>), data |-> EmptyObject]
    ELSE [exc |-> NoExc, data |-> raw.data]

_read_json(r) ==
    LET length == IF r.content_length.present /\ r.content_length.value # <<>>
                  THEN int(r.content_length.value)
                  ELSE [exc |-> NoExc, value |-> 0]
    IN  IF length.exc # NoExc THEN [exc |-> length.exc, data |-> EmptyObject]
        ELSE LET raw == IF length.value > 0 THEN r.body ELSE NoBody
                 j == json_loads(IF raw.syntax = "empty" THEN Body("json", EmptyObject) ELSE raw)
             IN  IF j.exc # NoExc
                 THEN [exc |-> Exc("ValueError", <<"Invalid JSON body: ">> \o <<j.exc.type>> \o j.exc.msg),
                       data |-> EmptyObject]
                 ELSE [exc |-> NoExc, data |-> j.data]

(***************************************************************************)
(* Text normalisation and encoding                                         *)
(***************************************************************************)
\* one byte per code point
utf8Latin1(cp) == <<cp % 256>>

\* unicode.encode('utf-8') of one code point
utf8(cp) ==
    IF cp < 128 THEN <<cp>>
    ELSE IF cp < 2048 THEN <<192 + (cp \div 64), 128 + (cp % 64)>>
    ELSE IF cp < 65536
    THEN <<224 + (cp \div 4096), 128 + ((cp \div 64) % 64), 128 + (cp % 64)>>
    ELSE <<240 + (cp \div 262144), 128 + ((cp \div 4096) % 64),
           128 + ((cp \div 64) % 64), 128 + (cp % 64)>>

RECURSIVE encode_utf8(_)
encode_utf8(text_u) ==
    IF text_u = <<>> THEN <<>> ELSE utf8(text_u[1]) \o encode_utf8(Tail(text_u))

AttributeError(what) == Exc("AttributeError", <<what>>)

\* the text taken without strip()
NormalizeNoStrip(text) ==
    IF text.type = "string"
    THEN [exc |-> NoExc, text_u |-> text.chars]
    ELSE [exc |-> AttributeError("object has no attribute 'decode'"), text_u |-> <<>>]

\* lines 139-146: text_u, or the exception the fallback decode raises
Normalize(text) ==
    IF text.type = "string"
    THEN [exc |-> NoExc, text_u |-> strip(text.chars, UnicodeSpace)]
    ELSE [exc |-> AttributeError("object has no attribute 'decode'"), text_u |-> <<>>]

(***************************************************************************)
(* Handler.do_POST and Handler.do_GET                                      *)
(***************************************************************************)
NotFound == [ok |-> FALSE, msg |-> Msg("not found")]
ServerError == [ok |-> FALSE, msg |-> Msg("server error")]
TextRequired == [ok |-> FALSE, msg |-> Msg("text is required")]
TextEmpty == [ok |-> FALSE, msg |-> Msg("text is empty")]
Ok == [ok |-> TRUE]
Health == [ok |-> TRUE, service |-> "nao_bridge"]

Reply(f) == [out |-> "reply", responses |-> f.responses, exc |-> f.exc, payload |-> <<>>]
Raised(e) == [out |-> "reply", responses |-> <<>>, exc |-> e, payload |-> <<>>]
CallSay(payload) == [out |-> "say", responses |-> <<>>, exc |-> NoExc, payload |-> payload]

\* lines 130-153 and 158: the try body up to the call of tts.say
PostBody(r, wfail) ==
    IF r.path # "/say" THEN Reply(_send_json(<<>>, 404, NotFound, wfail))
    ELSE LET rj == _read_json(r)
         IN  IF rj.exc # NoExc THEN Raised(rj.exc)
             ELSE IF rj.data.type # "object"
             THEN Raised(AttributeError("object has no attribute 'get'"))
             ELSE IF rj.data.text \in {Absent, None}
             THEN Reply(_send_json(<<>>, 400, TextRequired, wfail))
             ELSE LET n == Normalize(rj.data.text)
                  IN  IF n.exc # NoExc THEN Raised(n.exc)
                      ELSE IF n.text_u = <<>>
                      THEN Reply(_send_json(<<>>, 400, TextEmpty, wfail))
                      ELSE CallSay(encode_utf8(n.text_u))

\* lines 160-165: the except clauses, for the exception e raised in the try body
ExceptClauses(rs, e, wfail) ==
    IF e = NoExc THEN Flow(rs, NoExc)
    ELSE IF IsValueError(e)
    THEN LET s == str(e)
         IN  IF s.exc # NoExc THEN Flow(rs, s.exc)
             ELSE _send_json(rs, 400, [ok |-> FALSE, msg |-> s.value], wfail)
    ELSE _send_json(rs, 500, ServerError, wfail)

Pending == [status |-> "pending", exc |-> NoExc]
NoCall == [status |-> "none", exc |-> NoExc]

\* a handler that an exception left takes the serving loop down with it
FinishStuck(r, f) ==
    /\ req' = r
    /\ hstate' = IF f.exc # NoExc THEN "dead" ELSE "idle"
    /\ responses' = f.responses
    /\ uncaught' = f.exc

\* the handler of r ran to its end
Finish(r, f) ==
    /\ req' = r
    /\ hstate' = "idle"
    /\ responses' = f.responses
    /\ uncaught' = f.exc

\* every GET answered by the else branch
do_GETNoHealth(r, wfail) == _send_json(<<>>, 404, NotFound, wfail)

\* do_GET: lines 167-171
do_GET(r, wfail) ==
    IF r.path = "/health" THEN _send_json(<<>>, 200, Health, wfail)
    ELSE _send_json(<<>>, 404, NotFound, wfail)

DoGet(r) ==
    /\ r.method = "GET"
    /\ \E wfail \in BOOLEAN : Finish(r, do_GET(r, wfail))
    /\ say_calls' = <<>>
    /\ say_result' = NoCall
    /\ in_say' = in_say

\* do_POST up to its reply, or up to the call of tts.say
DoPost(r) ==
    /\ r.method = "POST"
    /\ \E w1, w2 \in BOOLEAN :
         LET b == PostBody(r, w1)
         IN  IF b.out = "say"
             THEN /\ req' = r
                  /\ hstate' = "say"
                  /\ responses' = <<>>
                  /\ uncaught' = NoExc
                  /\ say_calls' = <<b.payload>>
                  /\ say_result' = Pending
                  /\ in_say' = in_say + 1
             ELSE /\ Finish(r, ExceptClauses(b.responses, b.exc, w2))
                  /\ say_calls' = <<>>
                  /\ say_result' = NoCall
                  /\ in_say' = in_say

\* a method the Handler class defines no do_ method for: the base class
\* answers 501 by send_error
Unsupported(r) ==
    /\ r.method \notin {"GET", "POST"}
    /\ \E wfail \in BOOLEAN :
         Finish(r, Flow(<<[code |-> 501, body |-> [error |-> Msg("Unsupported method")],
                          complete |-> ~wfail]>>,
                        IF wfail THEN Exc("socket.error", <<"Broken pipe">>) ELSE NoExc))
    /\ say_calls' = <<>>
    /\ say_result' = NoCall
    /\ in_say' = in_say

\* a server that hands each request to a thread of its own
CanAcceptThreaded == pc = "serving"

\* serve_forever takes the next request once the handler of the last one ended
CanAccept == pc = "serving" /\ hstate = "idle"

HandleRequest ==
    /\ CanAccept
    /\ \E r \in Requests : DoGet(r) \/ DoPost(r) \/ Unsupported(r)
    /\ UNCHANGED pc
    /\ UNCHANGED startup_vars

\* tts.say returned: lines 155-156, and the except clauses when the write raises
SayReturns ==
    /\ pc = "serving" /\ hstate = "say"
    /\ say_result' = [status |-> "returned", exc |-> NoExc]
    /\ \E w1, w2 \in BOOLEAN :
         LET f == _send_json(<<>>, 200, Ok, w1)
         IN  Finish(req, ExceptClauses(f.responses, f.exc, w2))
    /\ in_say' = in_say - 1
    /\ UNCHANGED <<pc, say_calls>>
    /\ UNCHANGED startup_vars

\* what tts.say may raise
BackendExceptions ==
    { Exc("RuntimeError", <<"ALTextToSpeech::say", "Can't find service">>),
      Exc("ValueError", <<"bad", "value">>),
      Exc("ValueError", <<"<cp949 bytes>">>),
      Exc("ValueError", <<"<unicode text>">>) }

\* a raised tts.say called once more before the except clauses
SayRaisesRetry ==
    /\ pc = "serving" /\ hstate = "say"
    /\ \E e \in BackendExceptions, wfail \in BOOLEAN :
         /\ say_result' = [status |-> "raised", exc |-> e]
         /\ Finish(req, ExceptClauses(<<>>, e, wfail))
    /\ in_say' = in_say - 1
    /\ say_calls' = Append(say_calls, say_calls[1])
    /\ UNCHANGED pc
    /\ UNCHANGED startup_vars

\* tts.say raised e: the except clauses
SayRaises ==
    /\ pc = "serving" /\ hstate = "say"
    /\ \E e \in BackendExceptions, wfail \in BOOLEAN :
         /\ say_result' = [status |-> "raised", exc |-> e]
         /\ Finish(req, ExceptClauses(<<>>, e, wfail))
    /\ in_say' = in_say - 1
    /\ UNCHANGED <<pc, say_calls>>
    /\ UNCHANGED startup_vars

Next ==
    \/ Startup
    \/ HandleRequest
    \/ SayReturns
    \/ SayRaises

Spec == Init /\ [][Next]_vars

SpecStartup == InitStartup /\ [][Startup]_vars

(***************************************************************************)
(* Properties                                                              *)
(***************************************************************************)
\* the handler of req has run to its end
Done == pc = "serving" /\ hstate = "idle" /\ req # NoRequest

IsSay(r) == r.method = "POST" /\ r.path = "/say"

\* the body of r as its Content-Length delimits it parses as JSON
BodyParses(r) ==
    \/ r.content_length = BodyLength /\ r.body.syntax = "json"
    \/ r.content_length \in {NoHeader, Header(TRUE, <<"0">>)}

\* the JSON value the body of r parses to
ParsedData(r) == IF r.content_length = BodyLength THEN r.body.data ELSE EmptyObject

HasTextString(r) ==
    /\ IsSay(r) /\ BodyParses(r)
    /\ ParsedData(r).type = "object"
    /\ ParsedData(r).text.type = "string"

TextOf(r) == ParsedData(r).text.chars

\* s is t without its leading and trailing whitespace
IsStripOf(s, t) ==
    \E i \in 1..(Len(t) + 1), j \in 0..Len(t) :
        /\ s = SubSeq(t, i, j)
        /\ \A k \in 1..(i - 1) : t[k] \in UnicodeSpace
        /\ \A k \in (j + 1)..Len(t) : t[k] \in UnicodeSpace
        /\ s # <<>> => s[1] \notin UnicodeSpace /\ s[Len(s)] \notin UnicodeSpace

\* the UTF-8 bytes of the code points of the model, from the encoding tables
Utf8Table ==
    [c \in {32, 104, 160, 233, 44032} |->
        CASE c = 32 -> <<32>>
          [] c = 104 -> <<104>>
          [] c = 160 -> <<194, 160>>
          [] c = 233 -> <<195, 169>>
          [] c = 44032 -> <<234, 176, 128>>]

RECURSIVE ExpectedBytes(_)
ExpectedBytes(s) ==
    IF s = <<>> THEN <<>> ELSE Utf8Table[s[1]] \o ExpectedBytes(Tail(s))

\* the first response begun for req is (code, body), and is the only one if written whole
RepliedWith(code, body) ==
    /\ responses # <<>>
    /\ responses[1].code = code
    /\ responses[1].body = body
    /\ responses[1].complete => Len(responses) = 1

\* C1: a POST /say whose JSON object holds a text string that is non-empty
\* after stripping reaches exactly one tts.say call, with the UTF-8 bytes of
\* the stripped text; when the call returns the reply is 200 {"ok": true};
\* no 200 is begun for a POST /say unless that one call has returned.
C1_SayOnceThenOk ==
    /\ (req # NoRequest /\ HasTextString(req) /\ ~IsStripOf(<<>>, TextOf(req)))
        => /\ Len(say_calls) = 1
           /\ \E i \in 1..Len(TextOf(req)), j \in 1..Len(TextOf(req)) :
                 /\ IsStripOf(SubSeq(TextOf(req), i, j), TextOf(req))
                 /\ say_calls[1] = ExpectedBytes(SubSeq(TextOf(req), i, j))
           /\ hstate = "say" => responses = <<>> /\ say_result.status = "pending"
           /\ (hstate = "idle" /\ say_result.status = "returned") => RepliedWith(200, Ok)
    /\ (req # NoRequest /\ IsSay(req))
        => \A i \in 1..Len(responses) :
              responses[i].code = 200
                => say_result.status = "returned" /\ Len(say_calls) = 1

C1_Witness ==
    /\ Done /\ HasTextString(req)
    /\ TextOf(req) = <<32, 44032>>
    /\ say_calls = << <<234, 176, 128>> >>
    /\ say_result.status = "returned"
    /\ responses = <<[code |-> 200, body |-> Ok, complete |-> TRUE]>>

\* C2: when tts.say raises, whatever the exception, the reply is
\* 500 {"ok": false, "msg": "server error"} and holds none of the exception's text.
C2_BackendErrorIs500 ==
    (Done /\ say_result.status = "raised")
        => /\ RepliedWith(500, ServerError)
           /\ \A i \in 1..Len(responses) :
                 "msg" \in DOMAIN responses[i].body
                    => Range(responses[i].body.msg) \cap Range(say_result.exc.msg) = {}

\* C3: a POST /say whose body parses as JSON and holds no text, or a null
\* text (no body and Content-Length 0 count as {}), is answered
\* 400 {"ok": false, "msg": "text is required"} without a tts.say call.
C3_MissingTextIs400 ==
    (Done /\ IsSay(req) /\ BodyParses(req)
          /\ (ParsedData(req).type # "object" \/ ParsedData(req).text \in {Absent, None}))
        => /\ RepliedWith(400, TextRequired)
           /\ say_calls = <<>>
           /\ say_result.status = "none"

\* C4: a POST /say whose text string is empty after stripping is answered
\* 400 {"ok": false, "msg": "text is empty"} without a tts.say call.
C4_EmptyTextIs400 ==
    (req # NoRequest /\ HasTextString(req)
          /\ \A i \in 1..Len(TextOf(req)) : TextOf(req)[i] \in UnicodeSpace)
        => /\ Done
           /\ RepliedWith(400, TextEmpty)
           /\ say_calls = <<>>
           /\ say_result.status = "none"

C4_Witness ==
    /\ Done /\ HasTextString(req)
    /\ TextOf(req) = <<32, 32>>
    /\ responses = <<[code |-> 400, body |-> TextEmpty, complete |-> TRUE]>>
    /\ say_calls = <<>>

\* C5: a POST /say whose body does not parse as JSON is answered 400 with
\* ok false and a msg beginning "Invalid JSON body", without a tts.say call;
\* every 400 that comes of reading the request body carries that message.
C5_InvalidJsonIs400 ==
    (Done /\ IsSay(req)
          /\ (\/ req.content_length = BodyLength /\ req.body.syntax = "invalid"
              \/ _read_json(req).exc # NoExc))
        => /\ responses # <<>>
           /\ responses[1].code = 400
           /\ responses[1].body.ok = FALSE
           /\ responses[1].body.msg[1] = "Invalid JSON body: "
           /\ say_calls = <<>>

StartupOrder == <<"load", "validate", "convert", "sdkpath", "import", "proxy", "main">>

\* C6: the server is bound and requests are handled only after the settings
\* file was loaded, the required keys validated, the ports converted, both
\* SDK directories checked, naoqi imported and the proxy constructed, in
\* that order and each once; a failed step ends the process unbound, with
\* no request handled.
C6_StartupGate ==
    /\ Len(steps) <= Len(StartupOrder)
    /\ steps = SubSeq(StartupOrder, 1, Len(steps))
    /\ (server.bound \/ pc = "serving" \/ req # NoRequest)
        => /\ steps = StartupOrder
           /\ server.bound /\ pc = "serving" /\ error = NoExc
           /\ dotenv.status = "ok"
           /\ \A k \in KeySet : k \in DOMAIN environ /\ environ[k] # <<>>
           /\ config.NAO_PORT >= 0 /\ config.BRIDGE_BIND_PORT >= 0
           /\ Len(sys_path) = 2
           /\ tts.service = SERVICE
    /\ error # NoExc
        => /\ pc = "exited"
           /\ ~server.bound
           /\ req = NoRequest /\ responses = <<>> /\ say_calls = <<>>
    /\ pc = "exited" => error # NoExc

C6_Witness ==
    /\ pc = "exited"
    /\ steps = SubSeq(StartupOrder, 1, 6)
    /\ error.type = "EnvironmentError"
    /\ tts = NoProxy
    /\ ~server.bound

\* the required keys absent from os.environ or empty in it
MissingSet == {k \in KeySet : k \notin DOMAIN environ \/ environ[k] = <<>>}

\* the keys named in the message of the exception that ended the process
ReportedKeys == {<<error.msg[i]>> : i \in 2..Len(error.msg)} \ {<<", ">>}

\* C7: once the settings are loaded, the missing-key check fails exactly when
\* some required key is absent or empty, with an EnvironmentError that names
\* each such key once and no other; otherwise the check passes.
C7_MissingKeysExact ==
    Len(steps) >= 2
        => /\ MissingSet # {}
                => /\ pc = "exited" /\ Len(steps) = 2
                   /\ error.type = "EnvironmentError"
                   /\ error.msg[1] = "Missing required env keys in .env: "
                   /\ ReportedKeys = MissingSet
                   /\ Len(error.msg) = 2 * Cardinality(MissingSet)
           /\ MissingSet = {} => (pc # "exited" \/ Len(steps) > 2)

C7_Witness ==
    /\ pc = "exited" /\ Len(steps) = 2
    /\ MissingSet = {Str("NAO_IP"), Str("BRIDGE_BIND_PORT")}
    /\ Str("NAO_IP") \in DOMAIN environ
    /\ ReportedKeys = MissingSet

\* the tokens of s that are not whitespace
NonWs(s) == SelectSeq(s, LAMBDA tok : tok \notin WS)

\* C8: a key of the ambient environment keeps its value through the load,
\* whatever the settings file defines; the configuration is made of the
\* ambient values of such keys; loading the same file again changes nothing.
C8_AmbientWins ==
    Len(steps) >= 1
        => /\ \A k \in DOMAIN ambient : k \in DOMAIN environ /\ environ[k] = ambient[k]
           /\ (Len(steps) >= 3 /\ config # NoConfig) =>
                /\ Str("NAO_SDK_PATH") \in DOMAIN ambient
                      => config.NAO_SDK_PATH = NonWs(ambient[Str("NAO_SDK_PATH")])
                /\ Str("NAO_IP") \in DOMAIN ambient
                      => config.NAO_IP = NonWs(ambient[Str("NAO_IP")])
                /\ Str("BRIDGE_BIND_IP") \in DOMAIN ambient
                      => config.BRIDGE_BIND_IP = NonWs(ambient[Str("BRIDGE_BIND_IP")])
                /\ Str("NAO_PORT") \in DOMAIN ambient
                      => config.NAO_PORT = IntLiteral[NonWs(ambient[Str("NAO_PORT")])[1]]
                /\ Str("BRIDGE_BIND_PORT") \in DOMAIN ambient
                      => config.BRIDGE_BIND_PORT
                           = IntLiteral[NonWs(ambient[Str("BRIDGE_BIND_PORT")])[1]]
           /\ dotenv.status = "ok"
                => load_dotenv_strict(dotenv, environ).environ = environ

C8_Witness ==
    /\ Len(steps) >= 3
    /\ <<"NAO_IP", "=", "192.168.0.20">> \in Range(dotenv.lines)
    /\ ambient = FullEnv
    /\ config.NAO_IP = <<"10.0.0.1">>

DefinedRoute(r) ==
    \/ r.method = "GET" /\ r.path = "/health"
    \/ r.method = "POST" /\ r.path = "/say"

\* C9: a request of any method to anything but GET /health and POST /say is
\* answered 404 {"ok": false, "msg": "not found"} without a tts.say call.
C9_UnknownRouteIs404 ==
    (Done /\ ~DefinedRoute(req))
        => /\ RepliedWith(404, NotFound)
           /\ say_calls = <<>>

IsHealth(r) == r.method = "GET" /\ r.path = "/health"

\* C10: whatever was handled before, a GET /health taken by the serving
\* process is answered 200 {"ok": true, "service": "nao_bridge"} and no other
\* response, calls tts.say not at all and leaves the environment, the
\* configuration, the proxy and the server as they were.
C10_HealthAlways200 ==
    [][(CanAccept /\ IsHealth(req'))
         => /\ Len(responses') = 1
            /\ responses'[1].code = 200
            /\ responses'[1].body = Health
            /\ say_calls' = <<>>
            /\ say_result'.status = "none"
            /\ hstate' = "idle"
            /\ UNCHANGED <<pc, environ, config, sys_path, tts, server, error>>]_vars

C10_Witness ==
    /\ Done /\ IsHealth(req)
    /\ responses = <<[code |-> 200, body |-> Health, complete |-> TRUE]>>
    /\ say_calls = <<>>

\* C11: tts.say calls never overlap: while one request's call is in progress
\* no request is taken and no other call begins.
C11_SayExclusive ==
    /\ in_say \in {0, 1}
    /\ in_say = 1 <=> hstate = "say"
    /\ hstate = "say" => say_result.status = "pending" /\ Len(say_calls) = 1 /\ ~CanAccept

C11_Witness ==
    /\ pc = "serving" /\ hstate = "say" /\ in_say = 1
    /\ say_result.status = "pending"
    /\ req # NoRequest /\ IsSay(req)

\* the responses of a handler of r, given how its tts.say call ended, when
\* every write succeeds: a function of the request and the backend alone
ResponsesFor(r, sr) ==
    IF r.method = "GET" THEN do_GET(r, FALSE).responses
    ELSE IF r.method # "POST"
    THEN <<[code |-> 501, body |-> [error |-> Msg("Unsupported method")], complete |-> TRUE]>>
    ELSE IF sr.status = "returned" THEN _send_json(<<>>, 200, Ok, FALSE).responses
    ELSE IF sr.status = "raised" THEN ExceptClauses(<<>>, sr.exc, FALSE).responses
    ELSE LET b == PostBody(r, FALSE)
         IN  ExceptClauses(b.responses, b.exc, FALSE).responses

\* C12: once the handler of a request has ended, however it ended, the
\* process is serving and takes the next request; no step of the serving
\* process changes the environment, the configuration, the proxy or the
\* server; the reply to a request is decided by that request and the outcome
\* of its own tts.say call, not by the requests before it.
C12_ErrorsContained ==
    /\ [](pc = "serving" /\ say_result.status # "pending" => CanAccept)
    /\ [](Done =>
            /\ Len(responses) >= Len(ResponsesFor(req, say_result))
            /\ responses # <<>> =>
                 /\ ResponsesFor(req, say_result) # <<>>
                 /\ responses[1].code = ResponsesFor(req, say_result)[1].code
                 /\ responses[1].body = ResponsesFor(req, say_result)[1].body)
    /\ [][pc = "serving"
            => /\ pc' = "serving"
               /\ UNCHANGED <<environ, config, sys_path, tts, server, error>>]_vars

C12_Witness ==
    /\ Done /\ CanAccept
    /\ say_result.status = "raised"
    /\ say_result.exc.type = "ValueError"
    /\ responses = <<>>
    /\ uncaught.type = "UnicodeEncodeError"

\* the startup has assigned the values of lines 67-71 and gone on
PastConfig == pc \in {"sdkpath", "import", "proxy", "main", "serving"}

\* C13: once the startup is past the construction of the configuration,
\* NAO_SDK_PATH, NAO_IP and BRIDGE_BIND_IP are non-empty and NAO_PORT and
\* BRIDGE_BIND_PORT are non-zero integers.
C13_ConfigComplete ==
    PastConfig
        => /\ config.NAO_SDK_PATH # <<>>
           /\ config.NAO_IP # <<>>
           /\ config.BRIDGE_BIND_IP # <<>>
           /\ config.NAO_PORT > 0
           /\ config.BRIDGE_BIND_PORT > 0

\* C14: a port value that is no number ends the startup with an exception
\* of the kind raised for a missing settings file or missing keys
\* (EnvironmentError).
C14_BadPortIsConfigError ==
    (pc = "exited" /\ Len(steps) = 3) => error.type = "EnvironmentError"

\* C15: a text that is present, not null and not a string is normalised
\* without an exception and goes on to the empty check: the request is
\* answered "text is empty" or reaches tts.say, never 500.
C15_FallbackNeverRaises ==
    (Done /\ IsSay(req) /\ BodyParses(req)
          /\ ParsedData(req).type = "object"
          /\ ParsedData(req).text.type \notin {"absent", "null", "string"})
        => \/ say_result.status # "none"
           \/ RepliedWith(400, TextEmpty)

\* r is a POST /say that passes every check before the call of tts.say
Speakable(r) == HasTextString(r) /\ ~IsStripOf(<<>>, TextOf(r))

\* C16: a request calls tts.say at most once, also when the call raises;
\* a request that is answered by validation or routing calls it not at all.
C16_NoRetry ==
    /\ Len(say_calls) <= 1
    /\ say_result.status \in {"pending", "returned", "raised"} => Len(say_calls) = 1
    /\ (req # NoRequest /\ ~Speakable(req))
         => say_calls = <<>> /\ say_result.status = "none" /\ in_say = 0

C16_Witness ==
    /\ Done /\ Speakable(req)
    /\ say_result.status = "raised"
    /\ say_result.exc.type = "RuntimeError"
    /\ Len(say_calls) = 1
    /\ responses = <<[code |-> 500, body |-> ServerError, complete |-> TRUE]>>

\* C17: a response object json.dumps cannot encode is sent as 500 with the
\* body {"ok":false,"msg":"encode error"}, whatever code was meant, the 400
\* that echoes an exception message included; any other object is sent as
\* it is under the code that was meant.
C17_EncodeFallback ==
    /\ \A i \in 1..Len(responses) :
          /\ "msg" \in DOMAIN responses[i].body
                => Range(responses[i].body.msg) \cap NonUtf8Bytes = {}
          /\ responses[i].body = EncodeErrorBody => responses[i].code = 500
    /\ (Done /\ say_result.status = "raised" /\ say_result.exc.type = "ValueError")
         => /\ Range(say_result.exc.msg) \cap NonUtf8Bytes # {}
                 => /\ Len(responses) = 1
                    /\ responses[1].code = 500
                    /\ responses[1].body = EncodeErrorBody
            /\ Range(say_result.exc.msg) \cap (NonUtf8Bytes \cup UnicodeText) = {}
                 => /\ Len(responses) = 1
                    /\ responses[1].code = 400
                    /\ responses[1].body = [ok |-> FALSE, msg |-> say_result.exc.msg]
    /\ (Done /\ say_result.status = "returned") => RepliedWith(200, Ok)
    /\ (Done /\ IsHealth(req)) => RepliedWith(200, Health)

C17_Witness ==
    /\ Done
    /\ say_result.status = "raised"
    /\ say_result.exc = Exc("ValueError", <<"<cp949 bytes>">>)
    /\ responses = <<[code |-> 500, body |-> EncodeErrorBody, complete |-> TRUE]>>

\* C18: a request begins at most one response, also when writing the first
\* one fails; a request whose tts.say call returned is never answered
\* 500 "server error".
C18_OneResponse ==
    /\ Len(responses) <= 1
    /\ say_result.status = "returned"
         => \A i \in 1..Len(responses) : responses[i].body # ServerError

\* what each line of FileLines defines: <<key, value>>, or <<>> for a line
\* that defines nothing (a comment, no "=", an empty key)
DefinitionOf(line) ==
    CASE line = <<"NAO_SDK_PATH", "=", "/opt/naoqi">> -> <<"NAO_SDK_PATH", <<"/opt/naoqi">> >>
      [] line = <<" ", "NAO_IP", " ", "=", " ", "192.168.0.10", " ">>
            -> <<"NAO_IP", <<"192.168.0.10">> >>
      [] line = <<"NAO_IP", "=", "192.168.0.20">> -> <<"NAO_IP", <<"192.168.0.20">> >>
      [] line = <<"NAO_IP", "=">> -> <<"NAO_IP", <<>> >>
      [] line = <<"NAO_PORT", "=", "abc">> -> <<"NAO_PORT", <<"abc">> >>
      [] line = <<"BRIDGE_BIND_PORT", "=", "0">> -> <<"BRIDGE_BIND_PORT", <<"0">> >>
      [] OTHER -> <<>>

\* the lines of the settings file that define key
DefiningLines(key) ==
    {i \in 1..Len(dotenv.lines) :
        DefinitionOf(dotenv.lines[i]) # <<>> /\ DefinitionOf(dotenv.lines[i])[1] = key}

\* C19: after the load, a key that the ambient environment lacks and the
\* settings file defines holds the value of the first line defining it,
\* whatever later lines say; a key neither has is not set.
C19_FirstDefinitionWins ==
    (Len(steps) >= 1 /\ dotenv.status = "ok")
        => \A key \in {"NAO_SDK_PATH", "NAO_IP", "NAO_PORT", "BRIDGE_BIND_IP",
                       "BRIDGE_BIND_PORT", "x"} :
              Str(key) \notin DOMAIN ambient
                 => IF DefiningLines(key) = {}
                    THEN Str(key) \notin DOMAIN environ
                    ELSE /\ Str(key) \in DOMAIN environ
                         /\ environ[Str(key)]
                              = DefinitionOf(dotenv.lines[SetMin(DefiningLines(key))])[2]

C19_Witness ==
    /\ Len(steps) >= 1
    /\ dotenv.lines = << <<"NAO_IP", "=", "192.168.0.20">>,
                         <<" ", "NAO_IP", " ", "=", " ", "192.168.0.10", " ">> >>
    /\ Str("NAO_IP") \notin DOMAIN ambient
    /\ environ[Str("NAO_IP")] = <<"192.168.0.20">>

====
